---- MODULE Spec2Model ----
(***************************************************************************)
(* Model of the project scaffolder (src/src/main.rs) and of the template's *)
(* request rate limiter (src/templates/rest/src/utils/rate_limiter.rs).    *)
(*                                                                         *)
(* Scaffolder: main() is a straight-line program; copy_dir_all is a        *)
(* recursive directory copy, modelled with an explicit call stack.  The    *)
(* destination file system is a function from paths (relative to the       *)
(* project directory, << >> being the project directory itself) to nodes.  *)
(* The three source trees (templates/<template>, extras/.github,           *)
(* extras/terraform) are inputs, chosen in Init and only read.             *)
(***************************************************************************)
EXTENDS Integers, Sequences, FiniteSets, TLC

VARIABLES
    cli_with_ci,    \* --with-ci as given on the command line
    with_ci,        \* args.with_ci (mutable, main.rs:27-32)
    with_infra,     \* args.with_infra
    base,           \* source tree templates/<template>
    ci,             \* source tree extras/.github
    infra,          \* source tree extras/terraform
    fs0,            \* the destination file system before the run
    fs,             \* the destination file system
    pc,             \* position of main()
    stack,          \* call stack of copy_dir_all
    taskStatus,     \* per copy_dir_all call of main: none/running/ok/failed
    guardChecked,   \* project_dir.exists() has been evaluated
    writes,         \* history: (task, destination path) of every creation/copy
    visits,         \* history: number of visits of each source entry
    out,            \* lines printed on stdout
    errMsg,         \* message on stderr ("" if none)
    ioError,        \* the io::Error returned by the failing call ("" if none)
    exitCode,       \* process exit status, -1 while running
    requests,       \* RateLimiter.requests: ip -> (count, window start)
    max_requests,   \* RateLimiter.max_requests
    window,         \* RateLimiter.window
    clock,          \* the monotonic clock read by Instant::now()
    mutex,          \* owner of the Mutex, "free" if unlocked
    tpc,            \* per thread: position in is_allowed
    tip,            \* per thread: the ip argument
    tret,           \* per thread: last return value of is_allowed
    granted,        \* history: per ip, calls allowed since its window start was recorded
    lastCall        \* history: description of the last completed is_allowed body

scaffoldVars == <<cli_with_ci, with_ci, with_infra, base, ci, infra, fs0, fs, pc,
                  stack, taskStatus, guardChecked, writes, visits, out, errMsg,
                  ioError, exitCode>>
limiterVars == <<requests, max_requests, window, clock, mutex, tpc, tip, tret,
                 granted, lastCall>>
vars == <<scaffoldVars, limiterVars>>

(***************************************************************************)
(* Bounds                                                                  *)
(***************************************************************************)
MaxEntries == 2
MaxOverlayEntries == 2
MaxRequestsBound == 2
MaxWindow == 1
MaxClock == 3

Names == {"a", ".github", "terraform"}
OverlayNames == {"a"}
Tasks == {"base", "ci", "infra"}
Threads == {"t1", "t2"}
Ips == {"ip1", "ip2"}

(***************************************************************************)
(* Source trees.  A tree maps the relative path of each entry below the    *)
(* source directory to "file" or "dir"; the parent of every entry is the   *)
(* root or a "dir" entry.  A source is absent, a plain file, or a          *)
(* directory holding a tree.                                               *)
(***************************************************************************)
EmptyTree == << >>

Parent(p) == SubSeq(p, 1, Len(p) - 1)

DirsOf(t) == {<< >>} \cup {p \in DOMAIN t : t[p] = "dir"}

RECURSIVE TreesUpTo(_, _)
TreesUpTo(n, names) ==
    IF n = 0 THEN {EmptyTree}
    ELSE LET smaller == TreesUpTo(n - 1, names)
         IN smaller \cup UNION {
              { IF Append(d, nm) \in DOMAIN t
                  THEN t
                  ELSE t @@ (Append(d, nm) :> k)
                : d \in DirsOf(t), nm \in names, k \in {"file", "dir"} }
              : t \in smaller }

Sources(n, names) ==
    {[root |-> "none", tree |-> EmptyTree], [root |-> "file", tree |-> EmptyTree]}
    \cup {[root |-> "dir", tree |-> t] : t \in TreesUpTo(n, names)}

Source(task) == CASE task = "base" -> base
                  [] task = "ci" -> ci
                  [] task = "infra" -> infra

\* faulty variant: only the top level of the source is listed
ChildrenShallow(t, src) ==
    IF src = << >> THEN {p[Len(p)] : p \in {q \in DOMAIN t : Parent(q) = src}}
    ELSE {}

\* fs::read_dir(src): the names of the entries directly below src
Children(t, src) == {p[Len(p)] : p \in {q \in DOMAIN t : Parent(q) = src}}

DirNode == [kind |-> "dir", origin |-> "dir", path |-> << >>]
OldFile == [kind |-> "file", origin |-> "old", path |-> << >>]
PartialFile == [kind |-> "file", origin |-> "partial", path |-> << >>]

\* faulty variant: the copy loses the file's content
BytesTruncated(task, p) == PartialFile

\* the bytes of the source file at path p of the source of a task
Bytes(task, p) == [kind |-> "file", origin |-> task, path |-> p]

\* faulty variant: the CI overlay is copied into the project directory itself
DestRootFlat(task) == CASE task = "base" -> << >>
                        [] task = "ci" -> << >>
                        [] task = "infra" -> <<"terraform">>

\* main.rs:44-57: the destination of each copy, relative to the project directory
DestRoot(task) == CASE task = "base" -> << >>
                    [] task = "ci" -> <<".github">>
                    [] task = "infra" -> <<"terraform">>

(***************************************************************************)
(* File-system primitives on the destination                               *)
(***************************************************************************)
Exists(f, p) == p \in DOMAIN f
IsDir(f, p) == p \in DOMAIN f /\ f[p].kind = "dir"

Prefixes(p) == {SubSeq(p, 1, k) : k \in 0..Len(p)}

\* fs::create_dir_all(p) succeeds iff no prefix of p is a non-directory
CanCreateDirAll(f, p) == \A q \in Prefixes(p) : Exists(f, q) => IsDir(f, q)

Missing(f, p) == {q \in Prefixes(p) : ~Exists(f, q)}

CreateDirAll(f, p) ==
    [q \in DOMAIN f \cup Prefixes(p) |-> IF Exists(f, q) THEN f[q] ELSE DirNode]

\* fs::copy(src, p) succeeds iff p is not a directory and its parent is one
CanCopy(f, p) == ~IsDir(f, p) /\ IsDir(f, Parent(p))

WriteFile(f, p, node) == [q \in DOMAIN f \cup {p} |-> IF q = p THEN node ELSE f[q]]

(***************************************************************************)
(* main(), src/src/main.rs:26-67                                           *)
(***************************************************************************)
\* faulty variant: --with-infra does not enable --with-ci
EffectiveCiLiteral(c, i) == c

\* main.rs:29-32: if --with-infra is passed, --with-ci is enabled too
EffectiveCi(c, i) == IF i THEN TRUE ELSE c

\* faulty variant: the infrastructure overlay is copied before the CI overlay
NextPcInfraFirst(p) == CASE p = "compose" -> "guard"
                         [] p = "guard" -> "create"
                         [] p = "create" -> "template"
                         [] p = "template" -> "infra"
                         [] p = "infra" -> "ci"
                         [] p = "ci" -> "report"
                         [] p = "report" -> "done"

\* the statement of main() that follows a statement
NextPc(p) == CASE p = "compose" -> "guard"
               [] p = "guard" -> "create"
               [] p = "create" -> "template"
               [] p = "template" -> "ci"
               [] p = "ci" -> "infra"
               [] p = "infra" -> "report"
               [] p = "report" -> "done"

\* faulty variant: the Err is dropped and main() goes on
OnErrorIgnore(p) == NextPc(p)

\* .expect(..) on an Err: the process panics (exit status 101)
OnError(p) == "failed"

\* the copy_dir_all call made at a statement of main()
CurTask == CASE pc = "template" -> "base"
             [] pc = "ci" -> "ci"
             [] pc = "infra" -> "infra"
             [] OTHER -> "none"

PanicMsg(p) == CASE p = "create" -> "Failed to create project directory"
                 [] p = "template" -> "Failed to copy template"
                 [] p = "ci" -> "Failed to copy CI configs"
                 [] p = "infra" -> "Failed to copy infra setup"

Top == stack[Len(stack)]
Pop(s) == SubSeq(s, 1, Len(s) - 1)
SetTop(s, fr) == [s EXCEPT ![Len(s)] = fr]

Frame(src, dst) == [src |-> src, dst |-> dst, phase |-> "mkdir", pending |-> {}]

Bump(v, k) == IF k \in DOMAIN v THEN [v EXCEPT ![k] = @ + 1] ELSE v @@ (k :> 1)

\* an Err reaches main(): every frame returns it through `?', .expect panics
\* (the ELSE branch applies only where OnError lets main() go on)
Abort(kind) ==
    /\ ioError' = kind
    /\ pc' = OnError(pc)
    /\ IF pc' = "failed"
         THEN /\ errMsg' = PanicMsg(pc)
              /\ exitCode' = 101
              /\ taskStatus' = [taskStatus EXCEPT ![CurTask] = "failed"]
         ELSE /\ UNCHANGED <<errMsg, exitCode>>
              /\ taskStatus' = [taskStatus EXCEPT ![CurTask] = "ok"]
    /\ stack' = << >>

\* The state when main() starts.  An overlay directory that the request does
\* not ask for is never read (main.rs:49, 55), so its content is not varied.
ScaffoldInit ==
    /\ cli_with_ci \in BOOLEAN
    /\ with_ci = cli_with_ci
    /\ with_infra \in BOOLEAN
    /\ base \in Sources(MaxEntries, Names)
    /\ ci \in IF cli_with_ci \/ with_infra
               THEN Sources(MaxOverlayEntries, OverlayNames)
               ELSE {[root |-> "dir", tree |-> EmptyTree]}
    /\ infra \in IF with_infra
                  THEN Sources(MaxOverlayEntries, OverlayNames)
                  ELSE {[root |-> "dir", tree |-> EmptyTree]}
    /\ fs0 \in {EmptyTree,
                (<< >> :> OldFile),
                (<< >> :> DirNode),
                (<< >> :> DirNode) @@ (<<"a">> :> OldFile)}
    /\ fs = fs0
    /\ pc = "compose"
    /\ stack = << >>
    /\ taskStatus = [t \in Tasks |-> "none"]
    /\ guardChecked = FALSE
    /\ writes = {}
    /\ visits = << >>
    /\ out = << >>
    /\ errMsg = ""
    /\ ioError = ""
    /\ exitCode = -1

\* main.rs:27-32
Compose ==
    /\ pc = "compose"
    /\ with_ci' = EffectiveCi(with_ci, with_infra)
    /\ pc' = NextPc(pc)
    /\ UNCHANGED <<cli_with_ci, with_infra, base, ci, infra, fs0, fs, stack,
                   taskStatus, guardChecked, writes, visits, out, errMsg, ioError, exitCode>>
    /\ UNCHANGED limiterVars

\* faulty variant: the existence check is missing
GuardNoCheck ==
    /\ pc = "guard"
    /\ guardChecked' = TRUE
    /\ pc' = NextPc(pc)
    /\ UNCHANGED <<cli_with_ci, with_ci, with_infra, base, ci, infra, fs0, fs,
                   stack, taskStatus, writes, visits, out, errMsg, ioError,
                   exitCode>>
    /\ UNCHANGED limiterVars

\* main.rs:34-39
Guard ==
    /\ pc = "guard"
    /\ guardChecked' = TRUE
    /\ IF Exists(fs, << >>)
         THEN /\ errMsg' = "Directory already exists!"
              /\ exitCode' = 1
              /\ pc' = "failed"
         ELSE /\ pc' = NextPc(pc)
              /\ UNCHANGED <<errMsg, exitCode>>
    /\ UNCHANGED ioError
    /\ UNCHANGED <<cli_with_ci, with_ci, with_infra, base, ci, infra, fs0, fs,
                   stack, taskStatus, writes, visits, out>>
    /\ UNCHANGED limiterVars

\* main.rs:42, fs::create_dir succeeds
CreateDir ==
    /\ pc = "create"
    /\ ~Exists(fs, << >>)
    /\ fs' = WriteFile(fs, << >>, DirNode)
    /\ writes' = writes \cup {[task |-> "main", path |-> << >>]}
    /\ pc' = NextPc(pc)
    /\ UNCHANGED <<cli_with_ci, with_ci, with_infra, base, ci, infra, fs0,
                   stack, taskStatus, guardChecked, visits, out, errMsg, ioError, exitCode>>
    /\ UNCHANGED limiterVars

\* main.rs:42, fs::create_dir fails (the path exists, or an I/O error)
CreateDirFail ==
    /\ pc = "create"
    /\ ioError' = "Io"
    /\ pc' = OnError(pc)
    /\ IF pc' = "failed"
         THEN errMsg' = PanicMsg(pc) /\ exitCode' = 101
         ELSE UNCHANGED <<errMsg, exitCode>>
    /\ UNCHANGED <<cli_with_ci, with_ci, with_infra, base, ci, infra, fs0, fs,
                   stack, taskStatus, guardChecked, writes, visits, out>>
    /\ UNCHANGED limiterVars

TaskEnabled(t) == CASE t = "base" -> TRUE
                    [] t = "ci" -> with_ci
                    [] t = "infra" -> with_infra

\* main.rs:46, 51, 57: main() calls copy_dir_all
CallCopy ==
    /\ CurTask \in Tasks
    /\ stack = << >>
    /\ taskStatus[CurTask] = "none"
    /\ TaskEnabled(CurTask)
    /\ stack' = <<Frame(<< >>, DestRoot(CurTask))>>
    /\ taskStatus' = [taskStatus EXCEPT ![CurTask] = "running"]
    /\ UNCHANGED <<cli_with_ci, with_ci, with_infra, base, ci, infra, fs0, fs,
                   pc, guardChecked, writes, visits, out, errMsg, ioError, exitCode>>
    /\ UNCHANGED limiterVars

\* main.rs:49, 55: the flag of an overlay is false
SkipOverlay ==
    /\ CurTask \in {"ci", "infra"}
    /\ ~TaskEnabled(CurTask)
    /\ pc' = NextPc(pc)
    /\ UNCHANGED <<cli_with_ci, with_ci, with_infra, base, ci, infra, fs0, fs,
                   stack, taskStatus, guardChecked, writes, visits, out, errMsg,
                   ioError, exitCode>>
    /\ UNCHANGED limiterVars

\* main.rs:60-66
Report ==
    /\ pc = "report"
    /\ out' = <<"created">> \o (IF with_ci THEN <<"ci">> ELSE << >>)
                            \o (IF with_infra THEN <<"infra">> ELSE << >>)
    /\ exitCode' = 0
    /\ pc' = NextPc(pc)
    /\ UNCHANGED <<cli_with_ci, with_ci, with_infra, base, ci, infra, fs0, fs,
                   stack, taskStatus, guardChecked, writes, visits, errMsg, ioError>>
    /\ UNCHANGED limiterVars

(***************************************************************************)
(* copy_dir_all(src, dst), src/src/main.rs:70-87.  One frame per call; the *)
(* frame on top of the stack is the call being executed.                   *)
(***************************************************************************)
SrcIsDir(task, src) ==
    IF src = << >> THEN Source(task).root = "dir"
    ELSE src \in DOMAIN Source(task).tree /\ Source(task).tree[src] = "dir"

Inputs == <<cli_with_ci, with_ci, with_infra, base, ci, infra, fs0>>

\* main.rs:71, fs::create_dir_all(dst)
Mkdir ==
    /\ stack # << >>
    /\ Top.phase = "mkdir"
    /\ IF CanCreateDirAll(fs, Top.dst)
         THEN /\ fs' = CreateDirAll(fs, Top.dst)
              /\ writes' = writes \cup
                     {[task |-> CurTask, path |-> q] : q \in Missing(fs, Top.dst)}
              /\ stack' = SetTop(stack, [Top EXCEPT !.phase = "readdir"])
              /\ UNCHANGED <<pc, taskStatus, errMsg, ioError, exitCode>>
         ELSE /\ Abort("Io")
              /\ UNCHANGED <<fs, writes>>
    /\ UNCHANGED <<Inputs, guardChecked, visits, out>>
    /\ UNCHANGED limiterVars

\* main.rs:72, fs::read_dir(src): Err if src is missing or not a directory
ReadDir ==
    /\ stack # << >>
    /\ Top.phase = "readdir"
    /\ IF SrcIsDir(CurTask, Top.src)
         THEN /\ stack' = SetTop(stack, [Top EXCEPT
                              !.phase = "loop",
                              !.pending = Children(Source(CurTask).tree, Top.src)])
              /\ UNCHANGED <<pc, taskStatus, errMsg, ioError, exitCode>>
         ELSE Abort("NotFound")
    /\ UNCHANGED <<Inputs, fs, guardChecked, writes, visits, out>>
    /\ UNCHANGED limiterVars

\* faulty variant: a directory entry is not consumed from the iterator
VisitDirAgain ==
    /\ stack # << >>
    /\ Top.phase = "loop"
    /\ \E nm \in Top.pending :
         LET path == Append(Top.src, nm)
             dest_path == Append(Top.dst, nm)
         IN /\ Source(CurTask).tree[path] = "dir"
            /\ stack' = Append(stack, Frame(path, dest_path))
            /\ visits' = Bump(visits, <<CurTask, path>>)
    /\ UNCHANGED <<Inputs, fs, pc, taskStatus, guardChecked, writes, out, errMsg,
                   ioError, exitCode>>
    /\ UNCHANGED limiterVars

\* main.rs:77-78: the entry is a directory, copy_dir_all recurses
VisitDir ==
    /\ stack # << >>
    /\ Top.phase = "loop"
    /\ \E nm \in Top.pending :
         LET path == Append(Top.src, nm)
             dest_path == Append(Top.dst, nm)
         IN /\ Source(CurTask).tree[path] = "dir"
            /\ stack' = Append(SetTop(stack, [Top EXCEPT !.pending = @ \ {nm}]),
                               Frame(path, dest_path))
            /\ visits' = Bump(visits, <<CurTask, path>>)
    /\ UNCHANGED <<Inputs, fs, pc, taskStatus, guardChecked, writes, out, errMsg,
                   ioError, exitCode>>
    /\ UNCHANGED limiterVars

\* main.rs:79-84: the entry is a file; create_dir_all(parent), then fs::copy
CopyFile ==
    /\ stack # << >>
    /\ Top.phase = "loop"
    /\ \E nm \in Top.pending :
         LET path == Append(Top.src, nm)
             dest_path == Append(Top.dst, nm)
         IN /\ Source(CurTask).tree[path] = "file"
            /\ visits' = Bump(visits, <<CurTask, path>>)
            /\ IF CanCreateDirAll(fs, Parent(dest_path))
                    /\ CanCopy(CreateDirAll(fs, Parent(dest_path)), dest_path)
                 THEN /\ fs' = WriteFile(CreateDirAll(fs, Parent(dest_path)),
                                         dest_path, Bytes(CurTask, path))
                      /\ writes' = writes \cup
                           {[task |-> CurTask, path |-> q] :
                              q \in Missing(fs, Parent(dest_path)) \cup {dest_path}}
                      /\ stack' = SetTop(stack, [Top EXCEPT !.pending = @ \ {nm}])
                      /\ UNCHANGED <<pc, taskStatus, errMsg, ioError, exitCode>>
                 ELSE /\ Abort("Io")
                      /\ UNCHANGED <<fs, writes>>
    /\ UNCHANGED <<Inputs, guardChecked, out>>
    /\ UNCHANGED limiterVars

\* main.rs:86: every entry is copied, the call returns Ok(())
Return ==
    /\ stack # << >>
    /\ Top.phase = "loop"
    /\ Top.pending = {}
    /\ stack' = Pop(stack)
    /\ IF Len(stack) = 1
         THEN /\ taskStatus' = [taskStatus EXCEPT ![CurTask] = "ok"]
              /\ pc' = NextPc(pc)
         ELSE UNCHANGED <<taskStatus, pc>>
    /\ UNCHANGED <<Inputs, fs, guardChecked, writes, visits, out, errMsg, ioError, exitCode>>
    /\ UNCHANGED limiterVars

\* main.rs:71-73: create_dir_all, read_dir or the directory iterator returns
\* an I/O error (permissions, disk full, ...)
DirIoFail ==
    /\ stack # << >>
    /\ Top.phase \in {"mkdir", "readdir"}
    /\ Abort("Io")
    /\ UNCHANGED <<Inputs, fs, guardChecked, writes, visits, out>>
    /\ UNCHANGED limiterVars

\* main.rs:83: fs::copy returns an I/O error; the destination file is
\* untouched or left truncated
CopyIoFail ==
    /\ stack # << >>
    /\ Top.phase = "loop"
    /\ \E nm \in Top.pending :
         LET path == Append(Top.src, nm)
             dest_path == Append(Top.dst, nm)
         IN /\ Source(CurTask).tree[path] = "file"
            /\ visits' = Bump(visits, <<CurTask, path>>)
            /\ \/ UNCHANGED <<fs, writes>>
               \/ /\ CanCopy(fs, dest_path)
                  /\ fs' = WriteFile(fs, dest_path, PartialFile)
                  /\ writes' = writes \cup {[task |-> CurTask, path |-> dest_path]}
    /\ Abort("Io")
    /\ UNCHANGED <<Inputs, guardChecked, out>>
    /\ UNCHANGED limiterVars

NoCall == [ip |-> "none", before |-> << >>, after |-> << >>, elapsed |-> 0,
           now |-> 0, ret |-> FALSE]

LimiterIdle ==
    /\ requests = << >>
    /\ max_requests = 1
    /\ window = 1
    /\ clock = 0
    /\ mutex = "free"
    /\ tpc = << >>
    /\ tip = << >>
    /\ tret = << >>
    /\ granted = << >>
    /\ lastCall = NoCall

Init == ScaffoldInit /\ LimiterIdle

Next ==
    \/ Compose
    \/ Guard
    \/ CreateDir
    \/ CreateDirFail
    \/ CallCopy
    \/ SkipOverlay
    \/ Mkdir
    \/ ReadDir
    \/ VisitDir
    \/ CopyFile
    \/ Return
    \/ DirIoFail
    \/ CopyIoFail
    \/ Report

Spec == Init /\ [][Next]_vars

(***************************************************************************)
(* RateLimiter, src/templates/rest/src/utils/rate_limiter.rs:12-55.        *)
(* Handler threads call is_allowed concurrently; the body runs under the   *)
(* Mutex.  An entry of requests is <<count, window start>>.                *)
(***************************************************************************)
\* Instant::duration_since saturates at zero
DurationSince(now, earlier) == IF now >= earlier THEN now - earlier ELSE 0

\* rate_limiter.rs:31, requests.entry(ip).or_insert((0, now))
OrInsert(m, ip, now) == IF ip \in DOMAIN m THEN m ELSE m @@ (ip :> <<0, now>>)

\* faulty variant: off by one in the limit test
UnderLimitInclusive(count, max) == count <= max

\* rate_limiter.rs:36, the test that admits a request inside the window
UnderLimit(count, max) == count < max

\* rate_limiter.rs:32-44: the entry after the call and the value returned
Decide(entry, now, max, win) ==
    IF DurationSince(now, entry[2]) > win
      THEN [entry |-> <<1, now>>, ret |-> TRUE]
      ELSE IF UnderLimit(entry[1], max)
             THEN [entry |-> <<entry[1] + 1, entry[2]>>, ret |-> TRUE]
             ELSE [entry |-> entry, ret |-> FALSE]

\* RateLimiter::new(max_requests, window), rate_limiter.rs:20-26
LimiterInit ==
    /\ requests = << >>
    /\ max_requests \in 0..MaxRequestsBound
    /\ window \in 0..MaxWindow
    /\ clock = 0
    /\ mutex = "free"
    /\ tpc = [t \in Threads |-> "idle"]
    /\ tip = [t \in Threads |-> "ip1"]
    /\ tret = [t \in Threads |-> FALSE]
    /\ granted = [i \in Ips |-> 0]
    /\ lastCall = NoCall

\* rate_limiter.rs:46-49: a request from peer address ip enters is_allowed
Call(t) ==
    /\ tpc[t] = "idle"
    /\ \E ip \in Ips : tip' = [tip EXCEPT ![t] = ip]
    /\ tpc' = [tpc EXCEPT ![t] = "lock"]
    /\ UNCHANGED <<requests, max_requests, window, clock, mutex, tret, granted,
                   lastCall>>
    /\ UNCHANGED scaffoldVars

\* rate_limiter.rs:29, self.requests.lock()
Lock(t) ==
    /\ tpc[t] = "lock"
    /\ mutex = "free"
    /\ mutex' = t
    /\ tpc' = [tpc EXCEPT ![t] = "body"]
    /\ UNCHANGED <<requests, max_requests, window, clock, tip, tret, granted,
                   lastCall>>
    /\ UNCHANGED scaffoldVars

\* rate_limiter.rs:30-45: the body under the lock; the guard is dropped on return
Body(t) ==
    /\ tpc[t] = "body"
    /\ mutex = t
    /\ LET ip == tip[t]
           now == clock
           inserted == OrInsert(requests, ip, now)
           d == Decide(inserted[ip], now, max_requests, window)
           newWindow == ip \notin DOMAIN requests \/ d.entry[2] # requests[ip][2]
       IN /\ requests' = [inserted EXCEPT ![ip] = d.entry]
          /\ tret' = [tret EXCEPT ![t] = d.ret]
          /\ granted' = [granted EXCEPT ![ip] =
                           (IF newWindow THEN 0 ELSE @) + (IF d.ret THEN 1 ELSE 0)]
          /\ lastCall' = [ip |-> ip, before |-> requests, after |-> requests',
                          elapsed |-> DurationSince(now, inserted[ip][2]),
                          now |-> now, ret |-> d.ret]
    /\ mutex' = "free"
    /\ tpc' = [tpc EXCEPT ![t] = "idle"]
    /\ UNCHANGED <<max_requests, window, clock, tip>>
    /\ UNCHANGED scaffoldVars

\* time passes
Tick ==
    /\ clock < MaxClock
    /\ clock' = clock + 1
    /\ UNCHANGED <<requests, max_requests, window, mutex, tpc, tip, tret, granted,
                   lastCall>>
    /\ UNCHANGED scaffoldVars

ScaffoldIdle ==
    /\ cli_with_ci = FALSE
    /\ with_ci = FALSE
    /\ with_infra = FALSE
    /\ base = [root |-> "none", tree |-> EmptyTree]
    /\ ci = [root |-> "none", tree |-> EmptyTree]
    /\ infra = [root |-> "none", tree |-> EmptyTree]
    /\ fs0 = EmptyTree
    /\ fs = EmptyTree
    /\ pc = "compose"
    /\ stack = << >>
    /\ taskStatus = [t \in Tasks |-> "none"]
    /\ guardChecked = FALSE
    /\ writes = {}
    /\ visits = << >>
    /\ out = << >>
    /\ errMsg = ""
    /\ ioError = ""
    /\ exitCode = -1

InitLimiter == ScaffoldIdle /\ LimiterInit

NextLimiter ==
    \/ \E t \in Threads : Call(t)
    \/ \E t \in Threads : Lock(t)
    \/ \E t \in Threads : Body(t)
    \/ Tick

SpecLimiter == InitLimiter /\ [][NextLimiter]_vars

FairSpec == Spec /\ WF_vars(Next)

(***************************************************************************)
(* Properties                                                              *)
(***************************************************************************)
Range(q) == {q[k] : k \in DOMAIN q}

\* the overlays a request asks for (spec 4.2)
WantCi == cli_with_ci \/ with_infra
WantInfra == with_infra

\* the destination node an entry of a source is copied to
NodeOf(task, q) == IF Source(task).tree[q] = "dir" THEN DirNode ELSE Bytes(task, q)

Reserved == {".github", "terraform"}

\* the base template has no top-level entry named .github or terraform
BaseAvoidsOverlayDirs == \A p \in DOMAIN base.tree : p[1] \notin Reserved

\* C1: when the project path exists before the run (file or directory, empty
\* or not), the run only ever ends in the AlreadyExists failure with exit
\* status 1, and the file system below the path stays as it was: nothing is
\* created, copied or overwritten, for every template and flag combination.
ExistingProjectUntouched ==
    Exists(fs0, << >>) =>
        /\ fs = fs0
        /\ writes = {}
        /\ stack = << >>
        /\ pc \in {"compose", "guard", "failed"}
        /\ pc = "failed" => exitCode = 1 /\ errMsg = "Directory already exists!"
        /\ pc # "failed" => exitCode = -1
        /\ out = << >>

ExistingProjectRejected ==
    /\ pc = "failed"
    /\ Exists(fs0, <<"a">>)
    /\ with_infra
    /\ base.root = "dir"
    /\ exitCode = 1

\* C2: a request whose template has no base directory fails before any
\* mutation: the project directory is never created.
UnknownTemplateLeavesNoDirectory ==
    (base.root # "dir" /\ ~Exists(fs0, << >>)) => ~Exists(fs, << >>)

\* C3: after a successful run the overlays applied and reported are exactly
\* CI iff (withCi or withInfra) and infrastructure iff withInfra.
OverlaysAppliedAndReported ==
    pc = "done" =>
        /\ (taskStatus["ci"] = "ok") <=> WantCi
        /\ (taskStatus["infra"] = "ok") <=> WantInfra
        /\ ("ci" \in Range(out)) <=> WantCi
        /\ ("infra" \in Range(out)) <=> WantInfra
        /\ (\E w \in writes : w.task = "ci") => WantCi
        /\ (\E w \in writes : w.task = "infra") => WantInfra
        /\ WantCi => IsDir(fs, <<".github">>)
        /\ WantInfra => IsDir(fs, <<"terraform">>)
        /\ \A t \in Tasks : taskStatus[t] \in {"ok", "none"}

InfraImpliesCiApplied ==
    /\ pc = "done"
    /\ with_infra
    /\ ~cli_with_ci
    /\ taskStatus["ci"] = "ok"
    /\ out = <<"created", "ci", "infra">>

\* a file of an applied overlay is copied to destination path p
OverlayFileAt(p) ==
    \E t \in {"ci", "infra"} :
        /\ taskStatus[t] = "ok"
        /\ \E q \in DOMAIN Source(t).tree :
               Source(t).tree[q] = "file" /\ DestRoot(t) \o q = p

BaseFiles == {p \in DOMAIN base.tree : base.tree[p] = "file"}

\* the project file at p holds the content of the base template's file at p
SameAsBase(p) == fs[p].kind = "file" /\ fs[p].origin = "base" /\ fs[p].path = p

\* C4 (as stated): after a successful run every file of the base template is
\* at the same relative path of the project, with identical content,
\* whatever overlays were applied.
FidelityAnyOverlay ==
    pc = "done" =>
        \A p \in BaseFiles : Exists(fs, p) /\ SameAsBase(p)

\* C4 (amended): after a successful run every file of the base template
\* exists as a file at the same relative path of the project, and has
\* identical content unless an applied overlay copied a file of its own to
\* that very path.
FidelityUnlessOverlaid ==
    pc = "done" =>
        \A p \in BaseFiles :
            /\ Exists(fs, p)
            /\ fs[p].kind = "file"
            /\ ~OverlayFileAt(p) => SameAsBase(p)

FidelityCase ==
    /\ pc = "done"
    /\ taskStatus["ci"] = "ok"
    /\ taskStatus["infra"] = "ok"
    /\ \E p \in BaseFiles : Len(p) = 2 /\ ~OverlayFileAt(p) /\ SameAsBase(p)

OverlaysStayInside ==
    \A w \in writes :
        /\ w.task = "ci" => (w.path # << >> /\ w.path[1] = ".github")
        /\ w.task = "infra" => (w.path # << >> /\ w.path[1] = "terraform")

BaseStaysOutside ==
    \A w \in writes : w.task = "base" => (w.path = << >> \/ w.path[1] \notin Reserved)

SingleWriter ==
    \A w1 \in writes : \A w2 \in writes : w1.path = w2.path => w1.task = w2.task

\* C5 (as stated): for any template and overlay trees the base copy never
\* writes below .github or terraform, the overlay copies never write
\* outside them, and no path is written by more than one copy.
DisjointAnyTemplate == OverlaysStayInside /\ BaseStaysOutside /\ SingleWriter

\* C5 (amended): the overlay copies never write outside .github and
\* terraform respectively; and when the base template has no top-level
\* entry named .github or terraform, the base copy never writes below them
\* and no path is written by more than one copy.
DisjointWhenBaseAvoids ==
    /\ OverlaysStayInside
    /\ BaseAvoidsOverlayDirs => (BaseStaysOutside /\ SingleWriter)

DisjointCase ==
    /\ pc = "done"
    /\ BaseAvoidsOverlayDirs
    /\ \A t \in Tasks : \E w \in writes : w.task = t /\ Len(w.path) = 2

Later(t) == CASE t = "base" -> {"ci", "infra"}
              [] t = "ci" -> {"infra"}
              [] t = "infra" -> {}

AbortedState ==
    ioError # "" =>
        /\ pc = "failed"
        /\ exitCode = 101
        /\ out = << >>
        /\ stack = << >>
        /\ \A t \in Tasks : taskStatus[t] # "running"
        /\ \A t \in Tasks : taskStatus[t] = "failed" =>
               \A u \in Later(t) : taskStatus[u] = "none" /\ ~\E w \in writes : w.task = u

NothingAfterAbort ==
    ioError # "" => UNCHANGED <<fs, writes, visits, taskStatus, out, exitCode, pc>>

NothingRemoved == \A p \in DOMAIN fs : p \in DOMAIN fs'

\* C6: a failure of any materialization step aborts the run at once: no
\* later entry and no later overlay is copied, success is never reported,
\* the exit status is nonzero, and nothing written before is removed.
FailureAbortsWithoutRollback ==
    /\ []AbortedState
    /\ [][NothingAfterAbort]_vars
    /\ [][NothingRemoved]_vars

AbortLeavesPartialProject ==
    /\ pc = "failed"
    /\ taskStatus["ci"] = "failed"
    /\ ioError = "NotFound"
    /\ \E p \in BaseFiles : Len(p) = 2 /\ Exists(fs, p) /\ SameAsBase(p)
    /\ with_infra

\* C7: the existence check precedes the first write; the base copy has
\* completed before an overlay copy starts; the CI copy has completed
\* before the infrastructure copy starts; success is reported only after
\* every copy of the request has completed.
StepsInOrder ==
    /\ (writes # {} \/ fs # fs0) => guardChecked
    /\ taskStatus["base"] # "none" => guardChecked /\ IsDir(fs, << >>)
    /\ taskStatus["ci"] # "none" => taskStatus["base"] = "ok"
    /\ taskStatus["infra"] # "none" =>
           taskStatus["base"] = "ok" /\ taskStatus["ci"] = "ok"
    /\ (\E w \in writes : w.task \in {"ci", "infra"}) => taskStatus["base"] = "ok"
    /\ (\E w \in writes : w.task = "infra") => taskStatus["ci"] = "ok"
    /\ (pc = "done" \/ out # << >> \/ exitCode = 0) =>
           /\ pc = "done"
           /\ taskStatus["base"] = "ok"
           /\ WantCi => taskStatus["ci"] = "ok"
           /\ WantInfra => taskStatus["infra"] = "ok"

AllThreeCopiesDone ==
    /\ pc = "done"
    /\ \A t \in Tasks : taskStatus[t] = "ok"
    /\ \A t \in Tasks : \E w \in writes : w.task = t

\* the tree a source contributes below a destination directory
Placed(task) ==
    {DestRoot(task)} \cup {DestRoot(task) \o q : q \in DOMAIN Source(task).tree}

Applied == {"base"} \cup (IF WantCi THEN {"ci"} ELSE {})
                    \cup (IF WantInfra THEN {"infra"} ELSE {})

ExactComposition ==
    /\ DOMAIN fs = UNION {Placed(t) : t \in Applied}
    /\ \A t \in Applied :
           /\ fs[DestRoot(t)] = DirNode
           /\ \A q \in DOMAIN Source(t).tree : fs[DestRoot(t) \o q] = NodeOf(t, q)
    /\ WantCi <=> Exists(fs, <<".github">>)
    /\ WantInfra <=> Exists(fs, <<"terraform">>)

\* C8 (as stated): after a successful run on an absent destination the
\* project is exactly the base entries at their relative paths, plus, iff
\* CI is applied, a .github subtree equal to the CI overlay, plus, iff
\* infrastructure is applied, a terraform subtree equal to the
\* infrastructure overlay, and nothing else.
CompositionAnyTemplate == pc = "done" => ExactComposition

\* C8 (amended): the same, for base templates that have no top-level entry
\* named .github or terraform.
CompositionWhenBaseAvoids ==
    (pc = "done" /\ BaseAvoidsOverlayDirs) => ExactComposition

CompositionCase ==
    /\ pc = "done"
    /\ BaseAvoidsOverlayDirs
    /\ WantInfra
    /\ \E p \in BaseFiles : Len(p) = 2
    /\ \E q \in DOMAIN ci.tree : Len(q) = 2
    /\ \E q \in DOMAIN infra.tree : Len(q) = 1

PlainCompositionCase ==
    /\ pc = "done"
    /\ ~WantCi
    /\ ~WantInfra
    /\ DOMAIN fs = {<< >>} \cup DOMAIN base.tree
    /\ Cardinality(DOMAIN base.tree) = 2

Terminated == pc \in {"done", "failed"}

VisitedAtMostOnce == \A k \in DOMAIN visits : visits[k] <= 1

\* C9: every run terminates: it eventually reaches Done or Failed, never
\* leaves that state (nor changes anything in it), Done means exit status 0
\* and Failed a nonzero one, and the recursive copy visits each source entry
\* at most once.
RunTerminates ==
    /\ <>Terminated
    /\ [][Terminated => UNCHANGED scaffoldVars]_vars
    /\ [](pc = "done" => exitCode = 0)
    /\ [](pc = "failed" => exitCode \in {1, 101})
    /\ [](~Terminated => exitCode = -1)
    /\ []VisitedAtMostOnce

EveryEntryVisited ==
    /\ pc = "done"
    /\ \A t \in Tasks : Cardinality(DOMAIN Source(t).tree) = 2
    /\ \A t \in Tasks : \A q \in DOMAIN Source(t).tree :
           <<t, q>> \in DOMAIN visits /\ visits[<<t, q>>] = 1

OtherIpsUntouched(c) ==
    \A other \in Ips \ {c.ip} :
        /\ other \in DOMAIN c.after <=> other \in DOMAIN c.before
        /\ other \in DOMAIN c.before => c.after[other] = c.before[other]

LimiterBehaviour ==
    /\ \A ip \in DOMAIN requests : requests[ip][1] <= max_requests
    /\ \A ip \in Ips : granted[ip] <= max_requests
    /\ lastCall.ip # "none" =>
        /\ lastCall.elapsed > window =>
               (lastCall.ret /\ lastCall.after[lastCall.ip] = <<1, lastCall.now>>)
        /\ ~lastCall.ret => lastCall.after = lastCall.before
        /\ OtherIpsUntouched(lastCall)

\* C10 (as stated): for every ip and interleaving the counter never exceeds
\* max_requests, at most max_requests calls are allowed in one window, a
\* call after the window has elapsed is allowed and resets the entry to
\* (1, now), a denied call changes no state, and no call changes another
\* ip's entry.
LimiterAnyLimit == LimiterBehaviour

\* C10 (amended): the same, for limiters built with max_requests >= 1.
LimiterPositiveLimit == max_requests >= 1 => LimiterBehaviour

LimiterDeniesAtLimit ==
    /\ max_requests = 2
    /\ lastCall.ip = "ip1"
    /\ ~lastCall.ret
    /\ granted["ip1"] = 2
    /\ "ip2" \in DOMAIN requests
    /\ requests["ip2"] = <<1, clock>>
    /\ clock > window + 1

====
